---- MODULE Spec2Model ----
(***************************************************************************)
(* Frame conversions of mavros::ftf::detail (ftf_frame_conversions.cpp).   *)
(*                                                                         *)
(* Arithmetic is exact.  A quaternion is [e, v]: the four integers v       *)
(* scaled by (1/sqrt 2)^e, which holds the canonical quaternions           *)
(* (components 0, +-1, +-sqrt(2)/2, +-1/2) and their products exactly.     *)
(* A vector or matrix is [n, d]: integer entries n over the common         *)
(* denominator d, kept in lowest terms.  Floating-point rounding is not    *)
(* modelled: "within tolerance" in the documentation is equality here.     *)
(***************************************************************************)
EXTENDS Integers, Sequences, FiniteSets, TLC

VARIABLES kind, input, cur, ops
vars == <<kind, input, cur, ops>>

\* Longest chain of orientation transforms applied to one quaternion.
MaxOrientOps == 5
\* Longest chain of transforms applied to one vector or covariance.
MaxCovOps == 2
\* Largest factor k by which a supplied orientation is scaled.
MaxScale == 3

\* Angles in quarter turns: the model's unit for the arguments of
\* quaternion_from_rpy.
M_PI == 2
M_PI_2 == 1

-----------------------------------------------------------------------------
(* Exact arithmetic *)

Abs(x) == IF x < 0 THEN -x ELSE x

RECURSIVE Gcd(_, _)
Gcd(a, b) == IF b = 0 THEN Abs(a) ELSE Gcd(b, a % b)

RECURSIVE GcdSeq(_, _)
GcdSeq(s, j) == IF j = 0 THEN 0 ELSE Gcd(s[j], GcdSeq(s, j - 1))

RECURSIVE GcdRows(_, _)
GcdRows(M, i) ==
    IF i = 0 THEN 0 ELSE Gcd(GcdSeq(M[i], Len(M[i])), GcdRows(M, i - 1))

Dim(M) == Len(M)

\* A rational matrix in lowest terms.
Rat(M, d) ==
    LET g == Gcd(d, GcdRows(M, Len(M)))
        N == Dim(M)
    IN  [n |-> [i \in 1..N |-> [j \in 1..Len(M[i]) |-> M[i][j] \div g]],
         d |-> d \div g]

\* A rational 3-vector in lowest terms.
RatVec(v, d) ==
    LET g == Gcd(d, GcdSeq(v, Len(v)))
    IN  [n |-> [i \in 1..Len(v) |-> v[i] \div g], d |-> d \div g]

RECURSIVE Dot(_, _, _, _, _)
Dot(A, B, i, j, k) ==
    IF k = 0 THEN 0 ELSE A[i][k] * B[k][j] + Dot(A, B, i, j, k - 1)

\* Eigen matrix product A * B.
MatMul(A, B) ==
    LET N == Dim(A.n)
    IN  Rat([i \in 1..N |-> [j \in 1..N |-> Dot(A.n, B.n, i, j, N)]], A.d * B.d)

\* Eigen transpose().
Transpose(A) ==
    LET N == Dim(A.n)
    IN  [n |-> [i \in 1..N |-> [j \in 1..N |-> A.n[j][i]]], d |-> A.d]

\* Eigen matrix * vector.
MatVec(A, x) ==
    RatVec([i \in 1..3 |-> A.n[i][1] * x.n[1] + A.n[i][2] * x.n[2]
                           + A.n[i][3] * x.n[3]], A.d * x.d)

-----------------------------------------------------------------------------
(* Eigen::Quaterniond *)

RECURSIVE QCanon(_)
QCanon(q) ==
    IF q.v = <<0, 0, 0, 0>> THEN [e |-> 0, v |-> q.v]
    ELSE IF q.e >= 2 /\ \A i \in 1..4 : q.v[i] % 2 = 0
         THEN QCanon([e |-> q.e - 2,
                      v |-> <<q.v[1] \div 2, q.v[2] \div 2,
                              q.v[3] \div 2, q.v[4] \div 2>>])
         ELSE q

Quat(e, w, x, y, z) == QCanon([e |-> e, v |-> <<w, x, y, z>>])

\* Eigen quaternion product a * b (Hamilton product), v = <<w, x, y, z>>.
QMul(a, b) ==
    LET aw == a.v[1]  ax == a.v[2]  ay == a.v[3]  az == a.v[4]
        bw == b.v[1]  bx == b.v[2]  by == b.v[3]  bz == b.v[4]
    IN  Quat(a.e + b.e,
             aw * bw - ax * bx - ay * by - az * bz,
             aw * bx + ax * bw + ay * bz - az * by,
             aw * by + ay * bw + az * bx - ax * bz,
             aw * bz + az * bw + ax * by - ay * bx)

\* Squared norm times 2^e, and the squared norm as a reduced fraction.
SqNormV(q) == q.v[1] * q.v[1] + q.v[2] * q.v[2] + q.v[3] * q.v[3] + q.v[4] * q.v[4]
squaredNorm(q) ==
    LET g == Gcd(SqNormV(q), 2 ^ q.e)
    IN  <<SqNormV(q) \div g, (2 ^ q.e) \div g>>

\* The entries of Eigen's toRotationMatrix() over the denominator s, where
\* s stands for 1 on the scale of the products of two components of v.
RotNum(v, s) ==
    LET w == v[1]  x == v[2]  y == v[3]  z == v[4]
        twx == 2 * x * w  twy == 2 * y * w  twz == 2 * z * w
        txx == 2 * x * x  txy == 2 * y * x  txz == 2 * z * x
        tyy == 2 * y * y  tyz == 2 * z * y  tzz == 2 * z * z
    IN  << <<s - (tyy + tzz), txy - twz, txz + twy>>,
           <<txy + twz, s - (txx + tzz), tyz - twx>>,
           <<txz - twy, tyz + twx, s - (txx + tyy)>> >>

\* q.toRotationMatrix(): no normalization, the components are used as given.
toRotationMatrix(q) == Rat(RotNum(q.v, 2 ^ q.e), 2 ^ q.e)

\* q.normalized().toRotationMatrix(): every product of two components is
\* divided by the squared norm.
normalized_toRotationMatrix(q) == Rat(RotNum(q.v, SqNormV(q)), SqNormV(q))

\* Eigen::AngleAxisd(k quarter turns, unit axis number axis) as a quaternion:
\* (cos(k*45deg), sin(k*45deg) * axis).
AngleAxis(k, axis) ==
    LET c == CASE k % 8 = 0 -> <<0, 1, 0>>  [] k % 8 = 1 -> <<1, 1, 1>>
               [] k % 8 = 2 -> <<0, 0, 1>>  [] k % 8 = 3 -> <<1, -1, 1>>
               [] k % 8 = 4 -> <<0, -1, 0>> [] k % 8 = 5 -> <<1, -1, -1>>
               [] k % 8 = 6 -> <<0, 0, -1>> [] OTHER -> <<1, 1, -1>>
    IN  Quat(c[1], c[2],
             IF axis = 1 THEN c[3] ELSE 0,
             IF axis = 2 THEN c[3] ELSE 0,
             IF axis = 3 THEN c[3] ELSE 0)

\* Yaw about Z, then pitch about Y, then roll about X (ZYX).
quaternion_from_rpy(roll, pitch, yaw) ==
    QMul(QMul(AngleAxis(yaw, 3), AngleAxis(pitch, 2)), AngleAxis(roll, 1))

-----------------------------------------------------------------------------
(* Constants *)

\* Mutant: the roll of PI is left out of the NED/ENU rotation.
NED_ENU_Q_yaw_only == quaternion_from_rpy(0, 0, M_PI_2)

NED_ENU_Q == quaternion_from_rpy(M_PI, 0, M_PI_2)
\* Mutant: the roll, pitch and yaw are taken as the components x, y, z of the
\* quaternion instead of as angles.
AIRCRAFT_BASELINK_Q_raw == Quat(0, 0, M_PI, 0, 0)

AIRCRAFT_BASELINK_Q == quaternion_from_rpy(M_PI, 0, 0)

\* Eigen::Affine3d(q): linear part q.toRotationMatrix(), zero translation.
NED_ENU_AFFINE == toRotationMatrix(NED_ENU_Q)
AIRCRAFT_BASELINK_AFFINE == toRotationMatrix(AIRCRAFT_BASELINK_Q)

NED_ENU_R == normalized_toRotationMatrix(NED_ENU_Q)
AIRCRAFT_BASELINK_R == normalized_toRotationMatrix(AIRCRAFT_BASELINK_Q)
ZEROM3D == [n |-> << <<0, 0, 0>>, <<0, 0, 0>>, <<0, 0, 0>> >>, d |-> 1]

StaticTF == {"NED_TO_ENU", "ENU_TO_NED", "AIRCRAFT_TO_BASELINK", "BASELINK_TO_AIRCRAFT"}
NedEnuFamily == {"NED_TO_ENU", "ENU_TO_NED"}

\* Mutant: R3 is written into every block.
BlockTile_dense(R3, nb) ==
    [n |-> [i \in 1..(3 * nb) |-> [j \in 1..(3 * nb) |->
                R3.n[((i - 1) % 3) + 1][((j - 1) % 3) + 1]]],
     d |-> R3.d]

\* R << R3, ZEROM3D, ... : R3 on the nb diagonal blocks, ZEROM3D elsewhere.
\* The two share a denominator because ZEROM3D is all zero.
BlockTile(R3, nb) ==
    [n |-> [i \in 1..(3 * nb) |-> [j \in 1..(3 * nb) |->
                IF (i - 1) \div 3 = (j - 1) \div 3
                THEN R3.n[((i - 1) % 3) + 1][((j - 1) % 3) + 1]
                ELSE ZEROM3D.n[((i - 1) % 3) + 1][((j - 1) % 3) + 1]]],
     d |-> R3.d]

\* Matrix * Quaternion (Eigen RotationBase): l * r.toRotationMatrix().
MatTimesQuat(cov, q) == MatMul(cov, toRotationMatrix(q))

-----------------------------------------------------------------------------
(* The transforms *)

\* Eigen conjugate().
QConj(q) == Quat(q.e, q.v[1], -q.v[2], -q.v[3], -q.v[4])

\* Mutant: the reverse selectors apply the inverse (conjugate) rotation.
transform_orientation_conj(q, transform) ==
    CASE transform = "NED_TO_ENU" -> QMul(NED_ENU_Q, q)
      [] transform = "ENU_TO_NED" -> QMul(QConj(NED_ENU_Q), q)
      [] transform = "AIRCRAFT_TO_BASELINK" -> QMul(q, AIRCRAFT_BASELINK_Q)
      [] transform = "BASELINK_TO_AIRCRAFT" -> QMul(q, QConj(AIRCRAFT_BASELINK_Q))

transform_orientation(q, transform) ==
    IF transform \in NedEnuFamily
    THEN QMul(NED_ENU_Q, q)
    ELSE QMul(q, AIRCRAFT_BASELINK_Q)

\* Mutant: both families use the NED/ENU transform.
transform_static_frame_vec_ned(vec, transform) == MatVec(NED_ENU_AFFINE, vec)

transform_static_frame_vec(vec, transform) ==
    IF transform \in NedEnuFamily
    THEN MatVec(NED_ENU_AFFINE, vec)
    ELSE MatVec(AIRCRAFT_BASELINK_AFFINE, vec)

transform_static_frame_cov3(cov, transform) ==
    IF transform \in NedEnuFamily
    THEN MatTimesQuat(cov, NED_ENU_Q)
    ELSE MatTimesQuat(cov, AIRCRAFT_BASELINK_Q)

\* Mutant: the NED/ENU case falls through into the Aircraft/BaseLink case,
\* which transforms the result once more.
transform_static_frame_cov6_fallthrough(cov, transform) ==
    LET N == BlockTile(NED_ENU_R, 2)
        A == BlockTile(AIRCRAFT_BASELINK_R, 2)
        first == IF transform \in NedEnuFamily
                 THEN MatMul(MatMul(N, cov), Transpose(N))
                 ELSE cov
    IN  MatMul(MatMul(A, first), Transpose(A))

transform_static_frame_cov6(cov, transform) ==
    LET R == IF transform \in NedEnuFamily
             THEN BlockTile(NED_ENU_R, 2)
             ELSE BlockTile(AIRCRAFT_BASELINK_R, 2)
    IN  MatMul(MatMul(R, cov), Transpose(R))

transform_static_frame_cov9(cov, transform) ==
    LET R == IF transform \in NedEnuFamily
             THEN BlockTile(NED_ENU_R, 3)
             ELSE BlockTile(AIRCRAFT_BASELINK_R, 3)
    IN  MatMul(MatMul(R, cov), Transpose(R))

transform_frame_vec(vec, q) == MatVec(toRotationMatrix(q), vec)

transform_frame_cov3(cov, q) == MatTimesQuat(cov, q)

\* Mutant: the product with R.transpose() is left out.
transform_frame_cov6_noT(cov, q) ==
    LET R_q == normalized_toRotationMatrix(q)
        R == BlockTile(R_q, 2)
    IN  MatMul(R, cov)

transform_frame_cov6(cov, q) ==
    LET R_q == normalized_toRotationMatrix(q)
        R == BlockTile(R_q, 2)
    IN  MatMul(MatMul(R, cov), Transpose(R))

transform_frame_cov9(cov, q) ==
    LET R_q == normalized_toRotationMatrix(q)
        R == BlockTile(R_q, 3)
    IN  MatMul(MatMul(R, cov), Transpose(R))

-----------------------------------------------------------------------------
(* Inputs *)

QNeg(q) == Quat(q.e, -q.v[1], -q.v[2], -q.v[3], -q.v[4])
Scale(q, k) == Quat(q.e, k * q.v[1], k * q.v[2], k * q.v[3], k * q.v[4])
IsUnit(q) == SqNormV(q) = 2 ^ q.e

\* Unit quaternions: identity, the two canonical rotations, 90 degrees about
\* X, 120 degrees about (1,1,1), 90 degrees about -Z, and a negated one.
UnitQs ==
    { Quat(0, 1, 0, 0, 0), NED_ENU_Q, AIRCRAFT_BASELINK_Q, Quat(1, 1, 1, 0, 0),
      Quat(2, 1, 1, 1, 1), Quat(1, 1, 0, 0, -1), Quat(2, -1, 1, -1, 1) }

\* Orientations handed to transform_orientation.
OrientInputs == UnitQs \cup { Quat(0, 1, 2, 0, 0), Quat(0, 2, -1, 3, 1) }

\* Orientations handed to transform_frame: unit ones, one whose rotation
\* matrix is not a signed permutation (2 + i: entries 3/5 and 4/5), and a
\* scaled canonical one.
DynQs ==
    { NED_ENU_Q, AIRCRAFT_BASELINK_Q, Quat(1, 1, 1, 0, 0), Quat(2, 1, 1, 1, 1),
      Quat(0, 2, 1, 0, 0), Scale(AIRCRAFT_BASELINK_Q, MaxScale) }

VecInputs ==
    { RatVec(<<x, y, z>>, 1) : x \in -1..1, y \in -1..1, z \in -1..1 }
        \cup { RatVec(<<1, 2, 3>>, 1) }

D123 == << <<1, 0, 0>>, <<0, 2, 0>>, <<0, 0, 3>> >>
S3 == << <<2, 1, 0>>, <<1, 3, 1>>, <<0, 1, 4>> >>
G3 == << <<1, 2, 3>>, <<4, 5, 6>>, <<7, 8, 10>> >>
G3T == << <<1, 4, 7>>, <<2, 5, 8>>, <<3, 6, 10>> >>
Z3 == << <<0, 0, 0>>, <<0, 0, 0>>, <<0, 0, 0>> >>

\* The matrix made of the 3x3 blocks bs[a][b].
Blocks(bs) ==
    LET N == 3 * Len(bs)
    IN  Rat([i \in 1..N |-> [j \in 1..N |->
                bs[((i - 1) \div 3) + 1][((j - 1) \div 3) + 1]
                  [((i - 1) % 3) + 1][((j - 1) % 3) + 1]]], 1)

Cov3Inputs == { Rat(D123, 1), Rat(S3, 1), Rat(G3, 1) }

Cov6Inputs ==
    { Blocks(<< <<D123, Z3>>, <<Z3, S3>> >>),
      Blocks(<< <<G3, Z3>>, <<Z3, S3>> >>),
      Blocks(<< <<S3, G3>>, <<G3T, D123>> >>),
      Blocks(<< <<D123, G3>>, <<S3, G3>> >>) }

Cov9Inputs ==
    { Blocks(<< <<D123, Z3, Z3>>, <<Z3, S3, Z3>>, <<Z3, Z3, D123>> >>),
      Blocks(<< <<S3, G3, D123>>, <<G3T, D123, S3>>, <<D123, S3, S3>> >>),
      Blocks(<< <<G3, D123, S3>>, <<Z3, G3, G3T>>, <<S3, S3, D123>> >>) }

Inputs(k) ==
    CASE k = "orientation" -> OrientInputs
      [] k = "vector" -> VecInputs
      [] k = "cov3" -> Cov3Inputs
      [] k = "cov6" -> Cov6Inputs
      [] k = "cov9" -> Cov9Inputs

Kinds == {"orientation", "vector", "cov3", "cov6", "cov9"}

-----------------------------------------------------------------------------
(* The calls: one quantity, transformed by a chain of calls.  ops records   *)
(* the calls made so far, cur the value the last one returned.              *)

StaticOp(tf) == [tf |-> tf, q |-> Quat(0, 1, 0, 0, 0)]
DynOp(q) == [tf |-> "DYNAMIC", q |-> q]

Init ==
    /\ kind \in Kinds
    /\ input \in Inputs(kind)
    /\ cur = input
    /\ ops = <<>>

TransformOrientation ==
    /\ kind = "orientation"
    /\ Len(ops) < MaxOrientOps
    /\ \E tf \in StaticTF :
          /\ cur' = transform_orientation(cur, tf)
          /\ ops' = Append(ops, StaticOp(tf))
    /\ UNCHANGED <<kind, input>>

TransformStaticFrameVec ==
    /\ kind = "vector"
    /\ Len(ops) < MaxCovOps
    /\ \E tf \in StaticTF :
          /\ cur' = transform_static_frame_vec(cur, tf)
          /\ ops' = Append(ops, StaticOp(tf))
    /\ UNCHANGED <<kind, input>>

TransformStaticFrameCov3 ==
    /\ kind = "cov3"
    /\ Len(ops) < MaxCovOps
    /\ \E tf \in StaticTF :
          /\ cur' = transform_static_frame_cov3(cur, tf)
          /\ ops' = Append(ops, StaticOp(tf))
    /\ UNCHANGED <<kind, input>>

TransformStaticFrameCov6 ==
    /\ kind = "cov6"
    /\ Len(ops) < MaxCovOps
    /\ \E tf \in StaticTF :
          /\ cur' = transform_static_frame_cov6(cur, tf)
          /\ ops' = Append(ops, StaticOp(tf))
    /\ UNCHANGED <<kind, input>>

TransformStaticFrameCov9 ==
    /\ kind = "cov9"
    /\ Len(ops) < MaxCovOps
    /\ \E tf \in StaticTF :
          /\ cur' = transform_static_frame_cov9(cur, tf)
          /\ ops' = Append(ops, StaticOp(tf))
    /\ UNCHANGED <<kind, input>>

TransformFrameVec ==
    /\ kind = "vector"
    /\ Len(ops) < MaxCovOps
    /\ \E q \in DynQs :
          /\ cur' = transform_frame_vec(cur, q)
          /\ ops' = Append(ops, DynOp(q))
    /\ UNCHANGED <<kind, input>>

TransformFrameCov3 ==
    /\ kind = "cov3"
    /\ Len(ops) < MaxCovOps
    /\ \E q \in DynQs :
          /\ cur' = transform_frame_cov3(cur, q)
          /\ ops' = Append(ops, DynOp(q))
    /\ UNCHANGED <<kind, input>>

TransformFrameCov6 ==
    /\ kind = "cov6"
    /\ Len(ops) < MaxCovOps
    /\ \E q \in DynQs :
          /\ cur' = transform_frame_cov6(cur, q)
          /\ ops' = Append(ops, DynOp(q))
    /\ UNCHANGED <<kind, input>>

TransformFrameCov9 ==
    /\ kind = "cov9"
    /\ Len(ops) < MaxCovOps
    /\ \E q \in DynQs :
          /\ cur' = transform_frame_cov9(cur, q)
          /\ ops' = Append(ops, DynOp(q))
    /\ UNCHANGED <<kind, input>>

Next ==
    \/ TransformOrientation
    \/ TransformStaticFrameVec
    \/ TransformStaticFrameCov3
    \/ TransformStaticFrameCov6
    \/ TransformStaticFrameCov9
    \/ TransformFrameVec
    \/ TransformFrameCov3
    \/ TransformFrameCov6
    \/ TransformFrameCov9

Spec == Init /\ [][Next]_vars

\* Sanity of the constants: the values the comments of the source describe.
ConstantsOK ==
    /\ NED_ENU_Q = [e |-> 1, v |-> <<0, 1, 1, 0>>]
    /\ AIRCRAFT_BASELINK_Q = [e |-> 0, v |-> <<0, 1, 0, 0>>]
    /\ NED_ENU_R.n = << <<0, 1, 0>>, <<1, 0, 0>>, <<0, 0, -1>> >>
    /\ AIRCRAFT_BASELINK_R.n = << <<1, 0, 0>>, <<0, -1, 0>>, <<0, 0, -1>> >>
    /\ NED_ENU_R.d = 1 /\ AIRCRAFT_BASELINK_R.d = 1

-----------------------------------------------------------------------------
(* Vocabulary of the properties *)

Reverse(tf) ==
    CASE tf = "NED_TO_ENU" -> "ENU_TO_NED"
      [] tf = "ENU_TO_NED" -> "NED_TO_ENU"
      [] tf = "AIRCRAFT_TO_BASELINK" -> "BASELINK_TO_AIRCRAFT"
      [] tf = "BASELINK_TO_AIRCRAFT" -> "AIRCRAFT_TO_BASELINK"

CovKinds == {"cov3", "cov6", "cov9"}

IsStatic(op) == op.tf \in StaticTF
IsDynamic(op) == op.tf = "DYNAMIC"

\* ops is a static transform followed by its paired reverse.
IsRoundTrip == Len(ops) = 2 /\ IsStatic(ops[1]) /\ ops[2] = StaticOp(Reverse(ops[1].tf))

\* Every call so far is a static one of the family of the first.
SameFamily ==
    \A i \in 1..Len(ops) :
        IsStatic(ops[i]) /\ (ops[i].tf \in NedEnuFamily <=> ops[1].tf \in NedEnuFamily)

IsSymmetric(A) ==
    \A i \in 1..Dim(A.n) : \A j \in 1..Dim(A.n) : A.n[i][j] = A.n[j][i]

\* The 3x3 block (a, b) of a matrix.
Block(A, a, b) ==
    Rat([i \in 1..3 |-> [j \in 1..3 |-> A.n[3 * (a - 1) + i][3 * (b - 1) + j]]], A.d)

\* R * B * R^T on 3x3 matrices.
Sandwich(R, B) == MatMul(MatMul(R, B), Transpose(R))

\* The rotation matrix of the canonical rotation a selector chooses.
CanonicalR(tf) == IF tf \in NedEnuFamily THEN NED_ENU_R ELSE AIRCRAFT_BASELINK_R

StaticCov(k, cov, tf) ==
    CASE k = "cov3" -> transform_static_frame_cov3(cov, tf)
      [] k = "cov6" -> transform_static_frame_cov6(cov, tf)
      [] k = "cov9" -> transform_static_frame_cov9(cov, tf)

DynamicCov(k, cov, q) ==
    CASE k = "cov3" -> transform_frame_cov3(cov, q)
      [] k = "cov6" -> transform_frame_cov6(cov, q)
      [] k = "cov9" -> transform_frame_cov9(cov, q)

-----------------------------------------------------------------------------
(* Properties *)

\* C1 as stated: a unit quaternion transformed with a selector and then with
\* the paired reverse selector comes back with the same four components.
C1_RoundTripSameComponents ==
    (kind = "orientation" /\ IsRoundTrip /\ IsUnit(input)) => cur = input

\* C1 amended: a unit quaternion transformed with a selector and then with
\* the paired reverse selector comes back as -q, all four components
\* negated, which is the same rotation as q.
C1_RoundTripNegated ==
    (kind = "orientation" /\ IsRoundTrip /\ IsUnit(input)) => cur = QNeg(input)

C1_Witness ==
    /\ kind = "orientation"
    /\ IsUnit(input)
    /\ ops = <<StaticOp("AIRCRAFT_TO_BASELINK"), StaticOp("BASELINK_TO_AIRCRAFT")>>
    /\ cur = QNeg(input)
    /\ cur # input

\* C2: a 3-vector or a covariance of size 3, 6 or 9 transformed with a
\* selector and then with the paired reverse selector is the original input;
\* diag(1,2,3) through NED_TO_ENU then ENU_TO_NED is among the cases.
C2_StaticRoundTrip ==
    (kind \in CovKinds \cup {"vector"} /\ IsRoundTrip) => cur = input

C2_Witness ==
    /\ kind = "cov3"
    /\ input = Rat(D123, 1)
    /\ ops = <<StaticOp("NED_TO_ENU"), StaticOp("ENU_TO_NED")>>
    /\ cur = Rat(D123, 1)

\* C3: one static or dynamic transform of a symmetric covariance of size 3,
\* 6 or 9 returns a symmetric covariance.
C3_SymmetryPreserved ==
    (kind \in CovKinds /\ Len(ops) = 1 /\ IsSymmetric(input)) => IsSymmetric(cur)

\* C4: the static transform of a 3x3 covariance equals R * cov * R^T, R the
\* rotation matrix of the canonical rotation the selector chooses.
C4_Cov3IsSandwich ==
    (kind = "cov3" /\ Len(ops) = 1 /\ IsStatic(ops[1]))
        => cur = Sandwich(CanonicalR(ops[1].tf), input)

\* C5: transform_frame with the canonical NED/ENU quaternion returns the same
\* matrix as transform_static_frame with NED_TO_ENU, for sizes 3, 6 and 9.
C5_StaticDynamicConsistent ==
    (kind \in CovKinds /\ ops = <<DynOp(NED_ENU_Q)>>)
        => cur = StaticCov(kind, input, "NED_TO_ENU")

C5_Witness ==
    /\ kind = "cov9"
    /\ ops = <<DynOp(NED_ENU_Q)>>
    /\ cur = transform_static_frame_cov9(input, "NED_TO_ENU")
    /\ cur # input

\* C6: transform_frame of a 6x6 covariance with zero off-diagonal blocks has
\* zero off-diagonal blocks, and each diagonal block is R * block * R^T of
\* the input block, R the rotation matrix of the supplied orientation.
C6_BlockIndependence ==
    (/\ kind = "cov6"
     /\ Len(ops) = 1 /\ IsDynamic(ops[1])
     /\ Block(input, 1, 2) = ZEROM3D /\ Block(input, 2, 1) = ZEROM3D)
        => LET R == normalized_toRotationMatrix(ops[1].q)
           IN  /\ Block(cur, 1, 2) = ZEROM3D
               /\ Block(cur, 2, 1) = ZEROM3D
               /\ \A a \in 1..2 : Block(cur, a, a) = Sandwich(R, Block(input, a, a))

C6_Witness ==
    /\ kind = "cov6"
    /\ ops = <<DynOp(Quat(0, 2, 1, 0, 0))>>
    /\ Block(input, 1, 2) = ZEROM3D /\ Block(input, 2, 1) = ZEROM3D
    /\ Block(cur, 1, 2) = ZEROM3D /\ Block(cur, 2, 1) = ZEROM3D
    /\ cur # input

\* C7: AIRCRAFT_TO_BASELINK maps the vector (x, y, z) to (x, -y, -z), and so
\* (0,1,0) to (0,-1,0); nothing is added.
C7_AircraftBaselinkVector ==
    (kind = "vector" /\ ops = <<StaticOp("AIRCRAFT_TO_BASELINK")>>)
        => /\ cur.d = input.d
           /\ cur.n = <<input.n[1], -input.n[2], -input.n[3]>>

C7_Witness ==
    /\ kind = "vector"
    /\ input = RatVec(<<0, 1, 0>>, 1)
    /\ ops = <<StaticOp("AIRCRAFT_TO_BASELINK")>>
    /\ cur = RatVec(<<0, -1, 0>>, 1)

\* C8: for sizes 3, 6 and 9, transform_frame with a unit quaternion q returns
\* what it returns with k*q, for every scale k > 0.
C8_DynamicNormalizes ==
    (kind \in CovKinds /\ Len(ops) = 1 /\ IsDynamic(ops[1]) /\ IsUnit(ops[1].q))
        => \A k \in 1..MaxScale : DynamicCov(kind, input, Scale(ops[1].q, k)) = cur

\* C9: transform_orientation of a unit quaternion, under each of the four
\* selectors, has unit norm.
C9_UnitNormPreserved ==
    (kind = "orientation" /\ Len(ops) >= 1 /\ IsUnit(input))
        => /\ IsUnit(cur)
           /\ squaredNorm(cur) = squaredNorm(input)

C9_Witness ==
    /\ kind = "orientation"
    /\ IsUnit(input)
    /\ ops = <<StaticOp("BASELINK_TO_AIRCRAFT")>>
    /\ cur # input
    /\ squaredNorm(cur) = <<1, 1>>

\* C10: n transforms of one family applied to q give q, T(q), -q, -T(q) for
\* n mod 4 = 0, 1, 2, 3, where T is one transform of the family: twice is
\* exactly -q, four times exactly q.
C10_SameFamilyPeriodFour ==
    (kind = "orientation" /\ Len(ops) >= 1 /\ SameFamily)
        => LET once == transform_orientation(input, ops[1].tf)
           IN  cur = CASE Len(ops) % 4 = 0 -> input
                       [] Len(ops) % 4 = 1 -> once
                       [] Len(ops) % 4 = 2 -> QNeg(input)
                       [] Len(ops) % 4 = 3 -> QNeg(once)

C10_Witness ==
    /\ kind = "orientation"
    /\ Len(ops) = 4 /\ SameFamily
    /\ ops[1].tf = "NED_TO_ENU" /\ ops[2].tf = "NED_TO_ENU"
    /\ cur = input
    /\ input # QNeg(input)

====
